---- MODULE Spec2Model ----
(***************************************************************************)
(* The message filtering pipeline of auv_listener: the two tailing driver  *)
(* loops (sentry_filter.py, usbl_filter.py) and the classifiers and        *)
(* formatters of filter_utils.py they call.                                *)
(*                                                                         *)
(* A Python str is a sequence of one-character strings; None is the        *)
(* record PyNone, any other optional value v is Some(v).                   *)
(***************************************************************************)
EXTENDS Integers, Sequences, FiniteSets, TLC

(***************************************************************************)
(* Python str operations, as the code uses them.                           *)
(***************************************************************************)

PyNone == [isNone |-> TRUE, val |-> <<>>]

Some(v) == [isNone |-> FALSE, val |-> v]

\* s[i:j] for 0 <= i, with Python's clamping of j to len(s).
Slice(s, i, j) ==
    LET hi == IF j > Len(s) THEN Len(s) ELSE j
    IN  IF i >= hi THEN <<>> ELSE SubSeq(s, i + 1, hi)

\* s[i:]
SliceFrom(s, i) == Slice(s, i, Len(s))

\* sub occurs in s at 0-based offset i
OccursAt(s, sub, i) ==
    /\ i + Len(sub) <= Len(s)
    /\ Slice(s, i, i + Len(sub)) = sub

\* sub in s
Contains(s, sub) == \E i \in 0..Len(s) : OccursAt(s, sub, i)

\* the first offset >= i at which sub occurs in s (one exists)
RECURSIVE IndexFrom(_, _, _)
IndexFrom(s, sub, i) == IF OccursAt(s, sub, i) THEN i ELSE IndexFrom(s, sub, i + 1)

\* s.index(sub), defined where Contains(s, sub); str.index raises ValueError
\* elsewhere and every caller below tests Contains first.
Index(s, sub) == IndexFrom(s, sub, 0)

\* s.split(c) for a one-character separator c: never empty, keeps empty
\* fields.  The field before the first c, then the split of what follows it.
RECURSIVE Split(_, _)
Split(s, c) ==
    LET at == {i \in 1..Len(s) : s[i] = c}
    IN  IF at = {} THEN <<s>>
        ELSE LET first == CHOOSE i \in at : \A j \in at : i <= j
             IN  <<SubSeq(s, 1, first - 1)>> \o Split(SubSeq(s, first + 1, Len(s)), c)

\* mutant: only the first a is replaced
Replace_First(s, a, b) ==
    [i \in 1..Len(s) |-> IF s[i] = a /\ \A j \in 1..(i - 1) : s[j] # a THEN b ELSE s[i]]

\* s.replace(a, b) for one-character a and b
Replace(s, a, b) == [i \in 1..Len(s) |-> IF s[i] = a THEN b ELSE s[i]]

\* ",".join(fields), as the f-strings of the formatters build it
RECURSIVE JoinComma(_)
JoinComma(fields) ==
    IF Len(fields) = 0 THEN <<>>
    ELSE IF Len(fields) = 1 THEN fields[1]
    ELSE fields[1] \o <<",">> \o JoinComma(Tail(fields))

Digits == {"0", "1", "2", "3", "4", "5", "6", "7", "8", "9"}

DigitVal(c) ==
    CASE c = "0" -> 0 [] c = "1" -> 1 [] c = "2" -> 2 [] c = "3" -> 3
      [] c = "4" -> 4 [] c = "5" -> 5 [] c = "6" -> 6 [] c = "7" -> 7
      [] c = "8" -> 8 [] c = "9" -> 9

\* s.strip() for the blank the lines of the model can hold
RECURSIVE Strip(_)
Strip(s) ==
    IF Len(s) = 0 THEN s
    ELSE IF s[1] = " " THEN Strip(Tail(s))
    ELSE IF s[Len(s)] = " " THEN Strip(Slice(s, 0, Len(s) - 1))
    ELSE s

RECURSIVE DecimalValue(_)
DecimalValue(s) ==
    IF Len(s) = 0 THEN 0
    ELSE 10 * DecimalValue(Slice(s, 0, Len(s) - 1)) + DigitVal(s[Len(s)])

\* int(s): surrounding blanks are stripped, one sign is allowed, and what
\* remains must be one or more decimal digits; anything else is ValueError
\* (PyNone here).
PyInt(s) ==
    LET t == Strip(s)
        signed == Len(t) > 0 /\ t[1] \in {"+", "-"}
        body == IF signed THEN Tail(t) ELSE t
    IN  IF Len(body) > 0 /\ \A i \in 1..Len(body) : body[i] \in Digits
        THEN Some(IF signed /\ t[1] = "-" THEN 0 - DecimalValue(body) ELSE DecimalValue(body))
        ELSE PyNone

(***************************************************************************)
(* filter_utils.py                                                         *)
(***************************************************************************)

\* filter_sentry_status_message: the try body is `return message`.
filter_sentry_status_message(message) == Some(message)

\* mutant: a short packet is joined as it is instead of dropped
filter_sentry_science_message_Pad(message) ==
    LET packet == Split(message, " ")
    IN  Some(JoinComma(SubSeq(packet, 1, IF Len(packet) < 6 THEN Len(packet) ELSE 6)))

\* mutant: a packet of more than six fields is dropped too
filter_sentry_science_message_Exact(message) ==
    LET packet == Split(message, " ")
    IN  IF Len(packet) # 6 THEN PyNone
        ELSE Some(JoinComma(SubSeq(packet, 1, 6)))

\* mutant: the sixth field (depth) is left out of the record
filter_sentry_science_message_Five(message) ==
    LET packet == Split(message, " ")
    IN  IF Len(packet) < 6 THEN PyNone
        ELSE Some(JoinComma(SubSeq(packet, 1, 5)))

\* filter_sentry_science_message: packet[0..5] of message.split(" ");
\* the IndexError of a shorter packet is caught and None returned.
filter_sentry_science_message(message) ==
    LET packet == Split(message, " ")
    IN  IF Len(packet) < 6 THEN PyNone
        ELSE Some(JoinComma(SubSeq(packet, 1, 6)))

\* filter_experimental_message: str(message)
filter_experimental_message(message) == Some(message)

\* mutant: the else branch falls into the last queue
QueueType_CatchAll(queue, status_queue, science_queue, experimental_queue) ==
    IF queue = status_queue THEN "status"
    ELSE IF queue = science_queue THEN "science"
    ELSE "experimental"

\* the if/elif chain of parse_sentry_payload over the parsed queue number;
\* "None" is its else branch
QueueType(queue, status_queue, science_queue, experimental_queue) ==
    IF queue = status_queue THEN "status"
    ELSE IF queue = science_queue THEN "science"
    ELSE IF queue = experimental_queue THEN "experimental"
    ELSE "None"

\* mutant: a failed parse hands back the text from the marker on, the
\* local the code has sliced, instead of the line
MarkedPayload_Sliced(message, status_queue, science_queue, experimental_queue) ==
    LET payload == SliceFrom(message, Index(message, <<"S", "D", "Q">>))
        timestamp == Some(Split(message, "|")[1])
        failed == [msg_type |-> "None", payload |-> payload, timestamp |-> timestamp]
    IN  IF ~Contains(payload, <<":">>) THEN failed
        ELSE
            LET colon == Index(payload, <<":">>)
                queue == PyInt(Slice(payload, 4, colon))
                rest == SliceFrom(payload, colon + 1)
                msg_type == QueueType(queue.val, status_queue, science_queue,
                                      experimental_queue)
            IN  IF queue.isNone \/ msg_type = "None" THEN failed
                ELSE [msg_type |-> msg_type, payload |-> rest, timestamp |-> timestamp]

\* parse_sentry_payload from line 69 on, for a message that holds the
\* marker: the slice from the marker, the timestamp, and the try block,
\* whose except (no ':' for index, or int() failing) returns as its else.
MarkedPayload(message, status_queue, science_queue, experimental_queue) ==
    LET payload == SliceFrom(message, Index(message, <<"S", "D", "Q">>))
        timestamp == Some(Split(message, "|")[1])
        failed == [msg_type |-> "None", payload |-> message, timestamp |-> timestamp]
    IN  IF ~Contains(payload, <<":">>) THEN failed
        ELSE
            LET colon == Index(payload, <<":">>)
                queue == PyInt(Slice(payload, 4, colon))
                rest == SliceFrom(payload, colon + 1)
                msg_type == QueueType(queue.val, status_queue, science_queue,
                                      experimental_queue)
            IN  IF queue.isNone \/ msg_type = "None" THEN failed
                ELSE [msg_type |-> msg_type, payload |-> rest, timestamp |-> timestamp]

\* mutant: the timestamp is taken before the marker is looked for
parse_sentry_payload_StampFirst(message, status_queue, science_queue, experimental_queue) ==
    IF ~Contains(message, <<"S", "D", "Q">>)
    THEN [msg_type |-> "None", payload |-> message,
          timestamp |-> Some(Split(message, "|")[1])]
    ELSE MarkedPayload(message, status_queue, science_queue, experimental_queue)

\* parse_sentry_payload: (message type, payload, timestamp).  The type is
\* one of "status", "science", "experimental" or "None".
parse_sentry_payload(message, status_queue, science_queue, experimental_queue) ==
    IF ~Contains(message, <<"S", "D", "Q">>)
    THEN [msg_type |-> "None", payload |-> message, timestamp |-> PyNone]
    ELSE MarkedPayload(message, status_queue, science_queue, experimental_queue)

\* mutant: four independent ifs in place of the if/elif chain
TakenBranches_EveryIf(conds) == {i \in 1..Len(conds) : conds[i]}

\* the branches an if/elif chain runs: the first whose condition holds
TakenBranches(conds) ==
    {i \in 1..Len(conds) : conds[i] /\ \A j \in 1..(i - 1) : ~conds[j]}

\* mutant: the record tag is not looked at
TagRecognized_Any(tag) == TRUE

\* "VFR" in packets[0]
TagRecognized(tag) == Contains(tag, <<"V", "F", "R">>)

\* mutant: the ship takes acoustic fixes like the other targets
ShipAccepts_Usbl(solution) == Contains(solution, <<"U", "S", "B", "L">>)

\* "USBL" in packets[5], the test of the sentry, jason and ctd branches
UsblAccepts(solution) == Contains(solution, <<"U", "S", "B", "L">>)

\* "SOLN_GPS0" in packets[5], the test of the ship branch
ShipAccepts(solution) ==
    Contains(solution, <<"S", "O", "L", "N", "_", "G", "P", "S", "0">>)

\* parse_usbl_payload: what one call does.  raises: the IndexError of
\* packets[1], [2], [6], [7] or [8] on a line of fewer than nine packets,
\* which nothing catches.  targets: the file targets info is written to;
\* target: the one of them, or "None".
parse_usbl_payload(message, sentry_file_target, jason_file_target, ship_file_target, ctd_file_target, sentry_id, jason_id, ship_id, ctd_id) ==
    LET packets == Split(message, " ")
    IN  IF Len(packets) < 9
        THEN [raises |-> TRUE, targets |-> {}, target |-> "None", info |-> <<>>]
        ELSE
            LET new_stamp == Replace(packets[2], "/", "-")
                info == new_stamp \o <<" ">> \o packets[3] \o <<",">> \o packets[7]
                            \o <<",">> \o packets[8] \o <<",">> \o packets[9]
                file_targets == <<sentry_file_target, jason_file_target,
                                  ship_file_target, ctd_file_target>>
                conds == << packets[5] = sentry_id /\ UsblAccepts(packets[6]),
                            packets[5] = jason_id /\ UsblAccepts(packets[6]),
                            packets[5] = ship_id /\ ShipAccepts(packets[6]),
                            packets[5] = ctd_id /\ UsblAccepts(packets[6]) >>
                taken == IF TagRecognized(packets[1]) THEN TakenBranches(conds) ELSE {}
                targets == {file_targets[i] : i \in taken}
            IN  [raises |-> FALSE, targets |-> targets,
                 target |-> IF targets = {} THEN "None" ELSE CHOOSE t \in targets : TRUE,
                 info |-> info]

(***************************************************************************)
(* Configuration of the two drivers                                        *)
(***************************************************************************)

\* port_config.yaml, read at sentry_filter.py:21-28.  The file is not part
\* of the sources; the IDs are distinct one-digit queue numbers.
STATUS_QUEUE == 0
SCIENCE_QUEUE == 4
METHANE_QUEUE == 7
SUPR_QUEUE == 5
METS_QUEUE == 6
OBS_QUEUE == 8

ConfiguredQueues ==
    {STATUS_QUEUE, SCIENCE_QUEUE, METHANE_QUEUE, SUPR_QUEUE, METS_QUEUE, OBS_QUEUE}

\* usbl_filter.py:18-21
SENTRY_ID == <<"0">>
JASON_ID == <<"1">>
SHIP_ID == <<"2">>
CTD_ID == <<"5">>

\* queue_names of sentry_filter.py:48 and of usbl_filter.py:42.  A queue
\* name stands for its queue file (queue_files joins the names one to one
\* with the paths).
SentryQueueNames == <<"status", "science", "experimental", "supr", "mets", "obs">>

UsblQueueNames == <<"sentry", "jason", "ship", "ctd">>

SentryFiles == {SentryQueueNames[i] : i \in 1..Len(SentryQueueNames)}

UsblFiles == {UsblQueueNames[i] : i \in 1..Len(UsblQueueNames)}

Files == SentryFiles \cup UsblFiles

\* queue_filters[qidx](payload), sentry_filter.py:49-54 and 93.  Of the six
\* filters the driver names, filter_utils.py defines these three; the
\* classifier never yields another type, so no other entry is called.
queue_filters(msg_type, payload) ==
    CASE msg_type = "status" -> filter_sentry_status_message(payload)
      [] msg_type = "science" -> filter_sentry_science_message(payload)
      [] msg_type = "experimental" -> filter_experimental_message(payload)

(***************************************************************************)
(* Raw lines the producer may write                                        *)
(***************************************************************************)

SDQ == <<"S", "D", "Q">>

\* <ts>|SDQ <q>:<payload>
Tagged(ts, q, payload) == ts \o <<"|">> \o SDQ \o <<" ">> \o q \o <<":">> \o payload

SixFields == <<"a", " ", "b", " ", "c", " ", "d", " ", "e", " ", "f">>

\* The kinds of traffic a run may carry: the producer draws every line of
\* a run from one pool.
SciSix == Tagged(<<"t">>, <<"4">>, SixFields)

SciShort == Tagged(<<"t">>, <<"4">>, <<"a", " ", "b">>)

StatusLine == Tagged(<<"u">>, <<"0">>, <<"x", ",", "y">>)

MethaneLine == Tagged(<<"t">>, <<"7">>, <<"m">>)

SuprLine == Tagged(<<"t">>, <<"5">>, <<"s">>)

MetsLine == Tagged(<<"t">>, <<"6">>, <<"s">>)

ObsLine == Tagged(<<"t">>, <<"8">>, <<"s">>)

UnknownQueueLine == Tagged(<<"t">>, <<"9">>, <<"a">>)

NoMarkerLine == <<"h", "i">>

SentryPools == {
    {SciSix, SciShort},
    {SciSix, StatusLine},
    {UnknownQueueLine, <<>>} }

\* <tag> 1/2 t 2 <id> <solution> x y z
Fix(tag, id, soln) ==
    tag \o <<" ", "1", "/", "2", " ", "t", " ", "2", " ">> \o id \o <<" ">> \o soln
        \o <<" ", "x", " ", "y", " ", "z">>

SOLN_USBL == <<"S", "O", "L", "N", "_", "U", "S", "B", "L">>

SOLN_GPS0 == <<"S", "O", "L", "N", "_", "G", "P", "S", "0">>

VFR == <<"V", "F", "R">>

VPR == <<"V", "P", "R">>

ShortFix == <<"V", "F", "R", " ", "1", "/", "2">>

UsblPools == {
    {Fix(VFR, SENTRY_ID, SOLN_USBL), ShortFix},
    {Fix(VFR, SENTRY_ID, SOLN_USBL), Fix(VFR, SHIP_ID, SOLN_GPS0)},
    {Fix(VPR, SENTRY_ID, SOLN_USBL), <<>>} }

Pools(d) == IF d = "sentry" THEN SentryPools ELSE UsblPools

\* the most lines the producer writes in one run
MaxLines == 2

(***************************************************************************)
(* State                                                                   *)
(***************************************************************************)

VARIABLES
    driver,       \* which program runs: "sentry" or "usbl"
    pool,         \* the lines the producer of this run draws from
    ids,          \* the four target IDs of the usbl driver, in the order
                  \* sentry, jason, ship, ctd
    raw_exists,   \* os.path.isfile(raw_file)
    raw_text,     \* the bytes of raw_file
    todo,         \* the rest of the line the producer is writing, "\n" included
    nlines,       \* lines the producer has started
    pc,           \* where the driver is: "isfile", "read", "lines", "dead"
    last_line,    \* the read cursor
    parse_lines,  \* what the for loop has still to visit; with each line
                  \* (text) go its index in the raw file (idx) and whether
                  \* the read found a newline after it (whole)
    out_exists,   \* the queue files that exist
    out_files,    \* queue file -> its records, one per written line
    disk,         \* queue file -> its bytes
    rf,           \* the queue file object a `with open(...)` holds, with
                  \* the text written to it and not yet flushed
    restarts,     \* how many times the driver has been started again
    h_origin,     \* history: queue file -> raw line index of each record
    h_handled,    \* history: <<index, text>> of the whole lines the loop body took
    h_ret,        \* history: what the calls of the last turn of the for loop returned
    h_clean       \* history: every read so far ended at a line boundary

vars == <<driver, pool, ids, raw_exists, raw_text, todo, nlines, pc, last_line,
          parse_lines, out_exists, out_files, disk, rf, restarts,
          h_origin, h_handled, h_ret, h_clean>>

producer_vars == <<raw_exists, raw_text, todo, nlines>>

driver_vars == <<pc, last_line, parse_lines, out_exists, out_files, disk, rf, restarts,
                 h_origin, h_handled, h_ret, h_clean>>

\* no queue file is open
NoFile == [open |-> FALSE, file |-> "None", buf |-> <<>>]

\* h_ret before any call, and after a turn that called nothing
NoCall == [called |-> "None", raised |-> FALSE, msg_type |-> "None", payload |-> <<>>,
           timestamp |-> PyNone, data |-> PyNone]

Init ==
    /\ driver \in {"sentry", "usbl"}
    /\ pool \in Pools(driver)
    /\ ids = <<SENTRY_ID, JASON_ID, SHIP_ID, CTD_ID>>
    /\ raw_exists = FALSE
    /\ raw_text = <<>>
    /\ todo = <<>>
    /\ nlines = 0
    /\ pc = "isfile"
    /\ last_line = 0
    /\ parse_lines = <<>>
    /\ out_exists = {}
    /\ out_files = [f \in Files |-> <<>>]
    /\ disk = [f \in Files |-> <<>>]
    /\ rf = NoFile
    /\ restarts = 0
    /\ h_origin = [f \in Files |-> <<>>]
    /\ h_handled = {}
    /\ h_ret = NoCall
    /\ h_clean = TRUE

(***************************************************************************)
(* The producer: creates the raw file and appends to it only.  It writes   *)
(* a line, newline last, one byte at a time; the driver may read between   *)
(* any two bytes, so a read sees what it would see after writes of any     *)
(* chunk size.                                                             *)
(***************************************************************************)

CreateRaw ==
    /\ ~raw_exists
    /\ raw_exists' = TRUE
    /\ UNCHANGED <<driver, pool, ids, raw_text, todo, nlines>>
    /\ UNCHANGED driver_vars

BeginLine ==
    /\ raw_exists
    /\ todo = <<>>
    /\ nlines < MaxLines
    /\ \E l \in pool :
        LET whole == l \o <<"\n">>
        IN  /\ raw_text' = Append(raw_text, Head(whole))
            /\ todo' = Tail(whole)
    /\ nlines' = nlines + 1
    /\ UNCHANGED <<driver, pool, ids, raw_exists>>
    /\ UNCHANGED driver_vars

ContinueLine ==
    /\ todo # <<>>
    /\ raw_text' = Append(raw_text, Head(todo))
    /\ todo' = Tail(todo)
    /\ UNCHANGED <<driver, pool, ids, raw_exists, nlines>>
    /\ UNCHANGED driver_vars

(***************************************************************************)
(* The driver loop, the same in sentry_filter.py:59-106 and in             *)
(* usbl_filter.py:47-66 up to the body of the for loop.                    *)
(***************************************************************************)

\* f.split("\n") of the raw file as it is now
RawLines == Split(raw_text, "\n")

\* lines, each with its index and whether a newline ends it: all but the
\* last element of a split are followed by the separator
Numbered(lines) ==
    [i \in 1..Len(lines) |-> [idx |-> i - 1, text |-> lines[i], whole |-> i < Len(lines)]]

\* the for loop goes on while parse_lines lasts, then the while loop turns
AfterLine(rest) == IF rest = <<>> THEN "isfile" ELSE "lines"

\* `if not os.path.isfile(raw_file): continue`
IsFile ==
    /\ pc = "isfile"
    /\ pc' = IF raw_exists THEN "read" ELSE "isfile"
    /\ UNCHANGED <<last_line, parse_lines, out_exists, out_files, disk, rf, restarts,
                   h_origin, h_handled, h_ret, h_clean>>
    /\ UNCHANGED <<driver, pool, ids, raw_exists, raw_text, todo, nlines>>

\* mutant: the slice starts one line late
NewLines_SkipOne(lines, cursor) == SliceFrom(lines, cursor + 1)

\* mutant: a cursor beyond the end of the list starts over from line 0
NewLines_StartOver(lines, cursor) ==
    SliceFrom(lines, IF cursor >= Len(lines) THEN 0 ELSE cursor)

\* parse_lines = lines[last_line:]
NewLines(lines, cursor) == SliceFrom(lines, cursor)

\* mutant: the cursor counts the unterminated tail as a line
NewLastLine_Off(lines) == Len(lines)

\* mutant: the cursor starts over once two lines have gone by
NewLastLine_Wrap(lines) == IF Len(lines) > 2 THEN 0 ELSE Len(lines) - 1

\* the cursor after a read that found new lines
NewLastLine(lines) == Len(lines) - 1

\* mutant: the cursor is compared with the number of elements of the split
UpToDate_Count(lines, cursor) == cursor = Len(lines)

\* `if last_line == len(lines)-1: continue`
UpToDate(lines, cursor) == cursor = Len(lines) - 1

\* open(raw_file).read(), split, the comparison with last_line, the slice
\* and the new cursor.  open() raises FileNotFoundError when the raw file
\* is not there any more; nothing catches it and the process ends.
Read ==
    /\ pc = "read"
    /\ IF ~raw_exists
       THEN /\ pc' = "dead"
            /\ h_ret' = [NoCall EXCEPT !.called = "open", !.raised = TRUE]
            /\ UNCHANGED <<last_line, parse_lines, h_clean>>
       ELSE /\ LET lines == RawLines
               IN  IF UpToDate(lines, last_line)
                   THEN /\ pc' = "isfile"
                        /\ UNCHANGED <<last_line, parse_lines, h_clean>>
                   ELSE /\ parse_lines' = NewLines(Numbered(lines), last_line)
                        /\ last_line' = NewLastLine(lines)
                        /\ pc' = AfterLine(parse_lines')
                        /\ h_clean' = (h_clean /\ lines[Len(lines)] = <<>>)
            /\ UNCHANGED h_ret
    /\ UNCHANGED <<out_exists, out_files, disk, rf, restarts, h_origin, h_handled>>
    /\ UNCHANGED <<driver, pool, ids, raw_exists, raw_text, todo, nlines>>

\* mutant: the record is written twice
WriteRecord_Twice(files, exists, f, record) ==
    [files EXCEPT ![f] = IF f \in exists THEN files[f] \o <<record, record>>
                         ELSE <<record, record>>]

\* mutant: mode "w+" whether the file exists or not
WriteRecord_Truncate(files, exists, f, record) ==
    [files EXCEPT ![f] = <<record>>]

\* mutant: the first open creates the file and the record is not written
WriteRecord_CreateOnly(files, exists, f, record) ==
    [files EXCEPT ![f] = IF f \in exists THEN files[f] \o <<record>> ELSE <<>>]

\* mode "a" on an existing file, "w+" (create, truncating) otherwise, then
\* rf.write(record + "\n") and rf.flush()
WriteRecord(files, exists, f, record) ==
    [files EXCEPT ![f] = IF f \in exists THEN files[f] \o <<record>> ELSE <<record>>]

\* the text rf.write is given: f"{...}\n"
RecordText(record) == record \o <<"\n">>

\* mutant: a flush that leaves the last byte of the buffer behind
FlushedBytes_Short(buf) == SubSeq(buf, 1, Len(buf) - 1)

\* rf.flush() hands the whole buffer to the file in one write
FlushedBytes(buf) == buf

\* the bytes of the queue files after text is written to file f and flushed
WriteBytes(bytes, exists, f, text) ==
    [bytes EXCEPT ![f] = IF f \in exists THEN bytes[f] \o FlushedBytes(text)
                         ELSE FlushedBytes(text)]

\* what the body of the sentry for loop does with one line
\* (sentry_filter.py:75-105): the calls it makes with what they return, and
\* the file and record it writes, file "None" when it takes a `continue`
SentryBody(line) ==
    IF Len(line) = 0 THEN [file |-> "None", record |-> <<>>, ret |-> NoCall]
    ELSE
        LET c == parse_sentry_payload(line, STATUS_QUEUE, SCIENCE_QUEUE, METHANE_QUEUE)
            classified == [called |-> "parse_sentry_payload", raised |-> FALSE,
                           msg_type |-> c.msg_type, payload |-> c.payload,
                           timestamp |-> c.timestamp, data |-> PyNone]
        IN  IF c.msg_type = "None"
            THEN [file |-> "None", record |-> <<>>, ret |-> classified]
            ELSE
                LET data == queue_filters(c.msg_type, c.payload)
                    filtered == [classified EXCEPT !.called = "queue_filters", !.data = data]
                IN  IF data.isNone
                    THEN [file |-> "None", record |-> <<>>, ret |-> filtered]
                    ELSE [file |-> c.msg_type,
                          record |-> c.timestamp.val \o <<",">> \o data.val,
                          ret |-> filtered]

\* one turn of the for loop of sentry_filter.py:74-106
SentryLine ==
    /\ driver = "sentry"
    /\ pc = "lines"
    /\ parse_lines # <<>>
    /\ LET line == Head(parse_lines)
           w == SentryBody(line.text)
       IN  /\ IF w.file = "None"
              THEN UNCHANGED <<out_exists, out_files, disk, h_origin>>
              ELSE /\ out_files' = WriteRecord(out_files, out_exists, w.file, w.record)
                   /\ disk' = WriteBytes(disk, out_exists, w.file, RecordText(w.record))
                   /\ out_exists' = out_exists \cup {w.file}
                   /\ h_origin' = [h_origin EXCEPT ![w.file] = @ \o <<line.idx>>]
           /\ h_handled' = h_handled \cup (IF line.whole THEN {<<line.idx, line.text>>} ELSE {})
           /\ h_ret' = w.ret
    /\ parse_lines' = Tail(parse_lines)
    /\ pc' = AfterLine(parse_lines')
    /\ UNCHANGED <<last_line, rf, restarts, h_clean>>
    /\ UNCHANGED <<driver, pool, ids, raw_exists, raw_text, todo, nlines>>

\* what the body of the usbl for loop does with one line
\* (usbl_filter.py:62-66)
UsblBody(line) ==
    IF Len(line) = 0
    THEN [raises |-> FALSE, targets |-> {}, target |-> "None", info |-> <<>>]
    ELSE parse_usbl_payload(line, UsblQueueNames[1], UsblQueueNames[2], UsblQueueNames[3],
                            UsblQueueNames[4], ids[1], ids[2], ids[3], ids[4])

\* one turn of the for loop of usbl_filter.py:61-66; an exception leaving
\* parse_usbl_payload leaves the while loop too and ends the process
UsblLine ==
    /\ driver = "usbl"
    /\ pc = "lines"
    /\ parse_lines # <<>>
    /\ \E line \in {Head(parse_lines)} : \E r \in {UsblBody(line.text)} :
           /\ out_files' = [f \in Files |->
                   IF f \in r.targets
                   THEN WriteRecord(out_files, out_exists, f, r.info)[f]
                   ELSE out_files[f]]
           /\ disk' = [f \in Files |->
                   IF f \in r.targets
                   THEN WriteBytes(disk, out_exists, f, RecordText(r.info))[f]
                   ELSE disk[f]]
           /\ out_exists' = out_exists \cup r.targets
           /\ h_origin' = [f \in Files |->
                   IF f \in r.targets THEN h_origin[f] \o <<line.idx>> ELSE h_origin[f]]
           /\ h_handled' = h_handled \cup (IF line.whole THEN {<<line.idx, line.text>>} ELSE {})
           /\ h_ret' = IF Len(line.text) = 0 THEN NoCall
                        ELSE [NoCall EXCEPT !.called = "parse_usbl_payload",
                                            !.raised = r.raises]
           /\ IF r.raises
              THEN /\ pc' = "dead"
                   /\ UNCHANGED parse_lines
              ELSE /\ parse_lines' = Tail(parse_lines)
                   /\ pc' = AfterLine(parse_lines')
    /\ UNCHANGED <<last_line, rf, restarts, h_clean>>
    /\ UNCHANGED <<driver, pool, ids, raw_exists, raw_text, todo, nlines>>

Next ==
    \/ CreateRaw
    \/ BeginLine
    \/ ContinueLine
    \/ IsFile
    \/ Read
    \/ SentryLine
    \/ UsblLine

Spec == Init /\ [][Next]_vars

(***************************************************************************)
(* The drivers on a raw file of whole lines, with the write of a record    *)
(* taken step by step (open, write, flush and close), killed at any step   *)
(* and started again: last_line is not kept anywhere, the queue files stay *)
(* as they are.                                                            *)
(***************************************************************************)

\* the bytes of a file of whole lines: each line, then a newline
RECURSIVE FileText(_)
FileText(records) ==
    IF records = <<>> THEN <<>>
    ELSE Head(records) \o <<"\n">> \o FileText(Tail(records))

\* the raw files of one to MaxLines whole lines of a pool
WholeFiles(lines) == UNION { [1..n -> lines] : n \in 1..MaxLines }

CrashInit ==
    /\ driver \in {"sentry", "usbl"}
    /\ pool \in Pools(driver)
    /\ ids = <<SENTRY_ID, JASON_ID, SHIP_ID, CTD_ID>>
    /\ \E file \in WholeFiles(pool) :
        /\ raw_text = FileText(file)
        /\ nlines = Len(file)
    /\ raw_exists = TRUE
    /\ todo = <<>>
    /\ pc = "isfile"
    /\ last_line = 0
    /\ parse_lines = <<>>
    /\ out_exists = {}
    /\ out_files = [f \in Files |-> <<>>]
    /\ disk = [f \in Files |-> <<>>]
    /\ rf = NoFile
    /\ restarts = 0
    /\ h_origin = [f \in Files |-> <<>>]
    /\ h_handled = {}
    /\ h_ret = NoCall
    /\ h_clean = TRUE

\* the most times a driver is started again
MaxRestarts == 1

\* the queue file the body of the for loop of the running driver writes to
\* for a line, "None" when it writes nothing
LineFile(line) ==
    IF driver = "sentry" THEN SentryBody(line).file ELSE UsblBody(line).target

\* the record it writes
LineRecord(line) ==
    IF driver = "sentry" THEN SentryBody(line).record ELSE UsblBody(line).info

\* the calls it made on the way to the write
LineRet(line) ==
    IF driver = "sentry" THEN SentryBody(line).ret
    ELSE IF Len(line) = 0 THEN NoCall
    ELSE [NoCall EXCEPT !.called = "parse_usbl_payload", !.raised = UsblBody(line).raises]

\* a turn of the for loop that opens no queue file: the line is skipped, or
\* parse_usbl_payload raises on it and the process ends
SkipLine ==
    /\ pc = "lines"
    /\ parse_lines # <<>>
    /\ \E line \in {Head(parse_lines)} : \E ret \in {LineRet(line.text)} :
           /\ LineFile(line.text) = "None"
           /\ h_handled' = h_handled \cup (IF line.whole THEN {<<line.idx, line.text>>} ELSE {})
           /\ h_ret' = ret
           /\ IF ret.raised
              THEN /\ pc' = "dead"
                   /\ UNCHANGED parse_lines
              ELSE /\ parse_lines' = Tail(parse_lines)
                   /\ pc' = AfterLine(parse_lines')
    /\ UNCHANGED <<last_line, out_exists, out_files, disk, rf, restarts, h_origin, h_clean>>
    /\ UNCHANGED <<driver, pool, ids, raw_exists, raw_text, todo, nlines>>

\* a turn of the for loop up to `with open(queue_file, mode) as rf`: mode
\* "w+" creates the file, empty; mode "a" leaves an existing file as it is
OpenQueueFile ==
    /\ pc = "lines"
    /\ parse_lines # <<>>
    /\ \E f \in {LineFile(Head(parse_lines).text)} :
           /\ f # "None"
           /\ rf' = [open |-> TRUE, file |-> f, buf |-> <<>>]
           /\ out_exists' = out_exists \cup {f}
    /\ pc' = "write"
    /\ UNCHANGED <<last_line, parse_lines, out_files, disk, restarts,
                   h_origin, h_handled, h_ret, h_clean>>
    /\ UNCHANGED <<driver, pool, ids, raw_exists, raw_text, todo, nlines>>

\* rf.write(...): the text goes to the buffer of the file object
WriteBuffer ==
    /\ pc = "write"
    /\ rf' = [rf EXCEPT !.buf = RecordText(LineRecord(Head(parse_lines).text))]
    /\ pc' = "flush"
    /\ UNCHANGED <<last_line, parse_lines, out_exists, out_files, disk, restarts,
                   h_origin, h_handled, h_ret, h_clean>>
    /\ UNCHANGED <<driver, pool, ids, raw_exists, raw_text, todo, nlines>>

\* rf.flush() and the end of the with block, then the next turn
FlushClose ==
    /\ pc = "flush"
    /\ \E line \in {Head(parse_lines)} :
           /\ disk' = WriteBytes(disk, out_exists, rf.file, rf.buf)
           /\ out_files' = WriteRecord(out_files, out_exists, rf.file, LineRecord(line.text))
           /\ h_origin' = [h_origin EXCEPT ![rf.file] = @ \o <<line.idx>>]
           /\ h_handled' = h_handled \cup (IF line.whole THEN {<<line.idx, line.text>>} ELSE {})
           /\ h_ret' = LineRet(line.text)
    /\ rf' = NoFile
    /\ parse_lines' = Tail(parse_lines)
    /\ pc' = AfterLine(parse_lines')
    /\ UNCHANGED <<last_line, out_exists, restarts, h_clean>>
    /\ UNCHANGED <<driver, pool, ids, raw_exists, raw_text, todo, nlines>>

\* the process is killed: what the file object had buffered is gone, the
\* queue files keep their bytes
Crash ==
    /\ pc \notin {"dead", "crashed"}
    /\ pc' = "crashed"
    /\ rf' = NoFile
    /\ UNCHANGED <<last_line, parse_lines, out_exists, out_files, disk, restarts,
                   h_origin, h_handled, h_ret, h_clean>>
    /\ UNCHANGED <<driver, pool, ids, raw_exists, raw_text, todo, nlines>>

\* the driver is started again on the same raw file and queue files
Restart ==
    /\ pc \in {"dead", "crashed"}
    /\ restarts < MaxRestarts
    /\ restarts' = restarts + 1
    /\ pc' = "isfile"
    /\ last_line' = 0
    /\ parse_lines' = <<>>
    /\ rf' = NoFile
    /\ h_ret' = NoCall
    /\ UNCHANGED <<out_exists, out_files, disk, h_origin, h_handled, h_clean>>
    /\ UNCHANGED <<driver, pool, ids, raw_exists, raw_text, todo, nlines>>

CrashNext ==
    \/ IsFile
    \/ Read
    \/ SkipLine
    \/ OpenQueueFile
    \/ WriteBuffer
    \/ FlushClose
    \/ Crash
    \/ Restart

CrashSpec == CrashInit /\ [][CrashNext]_vars

(***************************************************************************)
(* The drivers on a raw file of whole lines that may be removed at any     *)
(* moment and created again, empty.                                        *)
(***************************************************************************)

\* the raw file is removed
RemoveRaw ==
    /\ raw_exists
    /\ raw_exists' = FALSE
    /\ raw_text' = <<>>
    /\ UNCHANGED <<driver, pool, ids, todo, nlines>>
    /\ UNCHANGED driver_vars

VanishNext ==
    \/ RemoveRaw
    \/ CreateRaw
    \/ IsFile
    \/ Read
    \/ SentryLine
    \/ UsblLine

VanishSpec == CrashInit /\ [][VanishNext]_vars

(***************************************************************************)
(* The drivers on a raw file that its producer truncates or writes anew:   *)
(* between two steps of the loop the raw file becomes any file of whole    *)
(* lines of the pool, or the empty file.                                   *)
(***************************************************************************)

\* the most lines the producer writes in one run, the first file included
MaxWritten == 2 * MaxLines + 1

\* the raw file is truncated, rotated or written anew
Rewrite ==
    /\ raw_exists
    /\ \E file \in WholeFiles(pool) \cup {<<>>} :
          /\ nlines + Len(file) <= MaxWritten
          /\ raw_text' = FileText(file)
          /\ raw_text' # raw_text
          /\ nlines' = nlines + Len(file)
    /\ UNCHANGED <<driver, pool, ids, raw_exists, todo>>
    /\ UNCHANGED driver_vars

RotateNext ==
    \/ Rewrite
    \/ IsFile
    \/ Read
    \/ SentryLine
    \/ UsblLine

RotateSpec == CrashInit /\ [][RotateNext]_vars

(***************************************************************************)
(* The sentry driver started on a raw file that already holds one whole    *)
(* line, for lines of many shapes: <ts part><marker><queue><colon><payload>*)
(***************************************************************************)

TsParts == { <<>>, <<"t", "|">>, <<"|">>, <<"a", ",", "b", "|">> }

Markers == { SDQ \o <<" ">>, SDQ, <<"S", "D", " ">>, <<"s", "d", "q", " ">> }

QueueTexts == { <<"0">>, <<"4">>, <<"7">>, <<"5">>, <<"6">>, <<"8">>, <<"9">>,
                <<"1", "2">>, <<"0", "4">>, <<" ", "4">>, <<"-", "4">>, <<"x">>, <<>> }

Colons == { <<":">>, <<>> }

SevenFields == SixFields \o <<" ", "g">>

SixNumbers == <<"1", ".", "5", " ", "-", "2", " ", "3", " ", "4", " ", "5", " ", "6">>

Payloads == { <<>>, <<"a", " ", "b">>, SixFields, SevenFields, SixNumbers,
              <<"x", ",", "y">>, <<"a", " ", " ", "b", " ", "c", " ", "d", " ", "e">> }

SentryLines ==
    { ts \o m \o q \o c \o p :
        ts \in TsParts, m \in Markers, q \in QueueTexts, c \in Colons, p \in Payloads }

LineInit ==
    /\ driver = "sentry"
    /\ \E l \in SentryLines :
        /\ pool = {l}
        /\ raw_text = l \o <<"\n">>
    /\ ids = <<SENTRY_ID, JASON_ID, SHIP_ID, CTD_ID>>
    /\ raw_exists = TRUE
    /\ todo = <<>>
    /\ nlines = 1
    /\ pc = "isfile"
    /\ last_line = 0
    /\ parse_lines = <<>>
    /\ out_exists = {}
    /\ out_files = [f \in Files |-> <<>>]
    /\ disk = [f \in Files |-> <<>>]
    /\ rf = NoFile
    /\ restarts = 0
    /\ h_origin = [f \in Files |-> <<>>]
    /\ h_handled = {}
    /\ h_ret = NoCall
    /\ h_clean = TRUE

LineNext ==
    \/ IsFile
    \/ Read
    \/ SentryLine

LineSpec == LineInit /\ [][LineNext]_vars

(***************************************************************************)
(* The usbl driver started on a raw file that already holds one whole      *)
(* line, for every assignment of the four target IDs and for fix lines of  *)
(* many shapes.                                                            *)
(***************************************************************************)

IdTexts == { <<"0">>, <<"1">>, <<"2">> }

\* SENTRY_ID, JASON_ID, SHIP_ID, CTD_ID: the configured IDs in three
\* orders, and any four of three ID texts, where some are bound to be equal
IdAssignments ==
    { <<SENTRY_ID, JASON_ID, SHIP_ID, CTD_ID>>, <<CTD_ID, SHIP_ID, JASON_ID, SENTRY_ID>>,
      <<SHIP_ID, SENTRY_ID, CTD_ID, JASON_ID>> }
        \cup { <<a, b, c, d>> : a \in IdTexts, b \in IdTexts, c \in IdTexts, d \in IdTexts }

FixTags == { VFR, VPR, <<"X", "V", "F", "R">>, <<"v", "f", "r">> }

FixIds == IdTexts \cup { CTD_ID, <<"7">> }

FixSolutions == { SOLN_USBL, SOLN_GPS0, <<"U", "S", "B", "L">>,
                  SOLN_GPS0 \o <<"_", "U", "S", "B", "L">>, <<"S", "O", "L", "N">> }

\* the fix of the docstring of parse_usbl_payload (filter_utils.py:90)
ExampleFix ==
    <<"V", "F", "R", " ", "2", "0", "1", "9", "/", "0", "9", "/", "2", "4",
      " ", "1", "3", ":", "2", "7", ":", "5", "8", ".", "0", "3", "3", " ",
      "2", " ", "0", " ", "S", "O", "L", "N", "_", "U", "S", "B", "L", " ",
      "-", "1", "2", "5", ".", "0", "7", "9", "5", "6", "5", " ", "4", "4",
      ".", "4", "8", "9", "6", "7", "5", " ", "-", "5", "9", "7", ".", "9",
      "0", "0", " ", "0", ".", "0", "0", "0", " ", "1", "0", " ", "0", ".",
      "0", "0", " ", "0", ".", "0", "0">>

\* full fix records, the fix of the docstring, and lines of fewer than nine
\* tokens
FixLines ==
    { Fix(t, i, sol) : t \in FixTags, i \in FixIds, sol \in FixSolutions }
        \cup { ExampleFix, ShortFix, VPR, NoMarkerLine }

FixInit ==
    /\ driver = "usbl"
    /\ ids \in IdAssignments
    /\ \E l \in FixLines :
        /\ pool = {l}
        /\ raw_text = l \o <<"\n">>
    /\ raw_exists = TRUE
    /\ todo = <<>>
    /\ nlines = 1
    /\ pc = "isfile"
    /\ last_line = 0
    /\ parse_lines = <<>>
    /\ out_exists = {}
    /\ out_files = [f \in Files |-> <<>>]
    /\ disk = [f \in Files |-> <<>>]
    /\ rf = NoFile
    /\ restarts = 0
    /\ h_origin = [f \in Files |-> <<>>]
    /\ h_handled = {}
    /\ h_ret = NoCall
    /\ h_clean = TRUE

FixNext ==
    \/ IsFile
    \/ Read
    \/ UsblLine

FixSpec == FixInit /\ [][FixNext]_vars

(***************************************************************************)
(* Properties                                                              *)
(***************************************************************************)

WholeLines == SubSeq(RawLines, 1, Len(RawLines) - 1)

\* the driver has taken every whole line and the producer is between lines
CaughtUp ==
    /\ pc \in {"isfile", "read"}
    /\ todo = <<>>
    /\ last_line = Len(RawLines) - 1

\* the records of the lines among `lines` that classify to queue file f and
\* format, in the order of the lines
RECURSIVE FormattedFor(_, _)
FormattedFor(f, lines) ==
    IF lines = <<>> THEN <<>>
    ELSE
        LET line == Head(lines)
            here == IF driver = "sentry"
                    THEN LET w == SentryBody(line)
                         IN  IF w.file = f THEN <<w.record>> ELSE <<>>
                    ELSE LET r == UsblBody(line)
                         IN  IF r.target = f THEN <<r.info>> ELSE <<>>
        IN  here \o FormattedFor(f, Tail(lines))

RECURSIVE UntilRaise(_)
UntilRaise(lines) ==
    IF lines = <<>> THEN <<>>
    ELSE IF driver = "usbl" /\ UsblBody(Head(lines)).raises THEN <<Head(lines)>>
    ELSE <<Head(lines)>> \o UntilRaise(Tail(lines))

\* the run is over for the lines written so far: the loop has taken them
\* all, or has ended
Final == CaughtUp \/ pc = "dead"

\* C3: for a fixed sequence of newline-terminated raw lines the final
\* content of every output file is the same however the lines are spread
\* over polls that fall on line boundaries: it is what one pass over the
\* lines writes.
C3_SplitIndependent ==
    (h_clean /\ Final) =>
        \A f \in Files : out_files[f] = FormattedFor(f, UntilRaise(WholeLines))

\* two lines have been taken, by reads on line boundaries only, and have
\* left a record each
C3_Witness ==
    /\ h_clean
    /\ CaughtUp
    /\ last_line = 2
    /\ \E f \in Files : Len(out_files[f]) = 2

\* C6: after any poll completes the cursor has not passed an unprocessed
\* line: every raw line below the cursor has been taken by the loop body
\* (which classifies it unless it is empty) in its whole, newline-ended form.
C6_CursorBehindProcessed ==
    pc \in {"isfile", "read"} =>
        \A i \in 0..(last_line - 1) : <<i, RawLines[i + 1]>> \in h_handled

\* the cursor stands after two lines, one of them first read before its
\* newline, and the loop is back at its top
C6_Witness ==
    /\ pc = "isfile"
    /\ last_line = 2
    /\ ~h_clean
    /\ \E i \in 1..2 : Len(RawLines[i]) > 0

\* C4: no single raw line terminates either driver loop: whatever whole
\* line the loop body takes, a usbl line of fewer tokens than a fix record
\* included, the loop goes on to the following lines and keeps polling.
C4_LoopNeverTerminates == pc = "dead" => ~Head(parse_lines).whole

\* the first line of the raw file
FirstLine == RawLines[1]

\* the loop body has taken the first line, whole
FirstLineTaken == <<0, FirstLine>> \in h_handled

NoOutput == out_exists = {} /\ \A f \in Files : out_files[f] = <<>>

\* the six queue IDs in the order of queue_names, as the driver passes them
\* to the classifier (sentry_filter.py:78-84)
QueueIds == <<STATUS_QUEUE, SCIENCE_QUEUE, METHANE_QUEUE, SUPR_QUEUE, METS_QUEUE, OBS_QUEUE>>

\* t|SDQ <q>:a b c d e f for the queue texts that read as queue ID q
LinesOfQueue(q) ==
    { Tagged(<<"t">>, qt, SixFields) : qt \in {x \in QueueTexts : PyInt(x) = Some(q)} }

\* C5: each of the six message types of the dispatch table is routable: a
\* raw line tagged with the type's queue ID is classified as that type and
\* its record is appended to that type's output file.
C5_EveryTypeRoutable ==
    \A i \in 1..Len(SentryQueueNames) :
        (FirstLine \in LinesOfQueue(QueueIds[i]) /\ FirstLineTaken) =>
            /\ h_ret.msg_type = SentryQueueNames[i]
            /\ Len(out_files[SentryQueueNames[i]]) = 1

\* lines with the SDQ marker and a queue number that parses and is none of
\* the configured IDs
UnknownQueueLines ==
    { ts \o SDQ \o <<" ">> \o q \o <<":">> \o p :
        ts \in TsParts, p \in Payloads,
        q \in {x \in QueueTexts : ~PyInt(x).isNone /\ PyInt(x).val \notin ConfiguredQueues} }

\* C7: a line with the SDQ marker and a parseable queue number that is none
\* of the configured queue IDs causes no write to any output file and does
\* not end the run.
C7_UnknownQueueDropped ==
    FirstLine \in UnknownQueueLines => (NoOutput /\ pc # "dead")

\* the loop body has taken such a line and the loop is polling again
C7_Witness ==
    /\ FirstLine \in UnknownQueueLines
    /\ FirstLineTaken
    /\ pc = "isfile"

\* line i of the raw file as it will read once the producer has ended it
FullLine(i) ==
    IF i + 1 < Len(RawLines) THEN RawLines[i + 1]
    ELSE RawLines[i + 1] \o Slice(todo, 0, Len(todo) - 1)

\* a science-queue line whose payload has fewer than six fields
IsShortScience(line) ==
    /\ Contains(line, SDQ)
    /\ LET c == parse_sentry_payload(line, STATUS_QUEUE, SCIENCE_QUEUE, METHANE_QUEUE)
       IN  c.msg_type = "science" /\ Len(Split(c.payload, " ")) < 6

RECURSIVE WithoutShortScience(_)
WithoutShortScience(lines) ==
    IF lines = <<>> THEN <<>>
    ELSE IF IsShortScience(Head(lines)) THEN WithoutShortScience(Tail(lines))
    ELSE <<Head(lines)>> \o WithoutShortScience(Tail(lines))

\* C8: a science-queue line whose payload has fewer than six
\* space-separated fields produces no output record, whenever it is read,
\* and the records of the lines before and after it are those of the raw
\* file without that line.
C8_ShortScienceDropped ==
    driver = "sentry" =>
        /\ \A f \in Files : \A k \in 1..Len(h_origin[f]) :
               ~IsShortScience(FullLine(h_origin[f][k]))
        /\ (h_clean /\ CaughtUp) =>
               \A f \in Files :
                   out_files[f] = FormattedFor(f, WithoutShortScience(WholeLines))

\* a short science line and a line that left a record have both been taken
C8_Witness ==
    /\ driver = "sentry"
    /\ h_clean
    /\ CaughtUp
    /\ \E i \in 1..Len(WholeLines) : IsShortScience(WholeLines[i])
    /\ Len(out_files["science"]) = 1

\* a decimal number, signed or not
IsNumber(tok) ==
    LET body == IF Len(tok) > 0 /\ tok[1] \in {"+", "-"} THEN Tail(tok) ELSE tok
    IN  /\ \E i \in 1..Len(body) : body[i] \in Digits
        /\ \A i \in 1..Len(body) : body[i] \in Digits \cup {"."}
        /\ Cardinality({i \in 1..Len(body) : body[i] = "."}) <= 1

\* the layout the science formatter documents: six numbers, blank-separated
ScienceLayout(payload) ==
    LET packet == Split(payload, " ")
    IN  Len(packet) = 6 /\ \A i \in 1..6 : IsNumber(packet[i])

ScienceTimestamps == { <<"t">>, <<>>, <<"a", ",", "b">> }

ScienceFields == {
    << <<"a">>, <<"b">>, <<"c">>, <<"d">>, <<"e">>, <<"f">> >>,
    << <<"1", ".", "5">>, <<"-", "2">>, <<"3">>, <<"4">>, <<"5">>, <<"6">> >> }

\* the queue texts that read as the science queue ID
ScienceQueueTexts == {x \in QueueTexts : PyInt(x) = Some(SCIENCE_QUEUE)}

RECURSIVE JoinBlank(_)
JoinBlank(fields) ==
    IF Len(fields) = 1 THEN fields[1]
    ELSE fields[1] \o <<" ">> \o JoinBlank(Tail(fields))

\* C10: a raw line <ts>|SDQ <q>:<f1> <f2> <f3> <f4> <f5> <f6>, q the
\* science queue ID, adds exactly the line <ts>,<f1>,<f2>,<f3>,<f4>,<f5>,<f6>
\* to the science output file and nothing to any other output file.
C10_ScienceRoundTrip ==
    \A ts \in ScienceTimestamps : \A q \in ScienceQueueTexts : \A fields \in ScienceFields :
        FirstLine = Tagged(ts, q, JoinBlank(fields)) =>
            IF FirstLineTaken
            THEN /\ out_exists = {"science"}
                 /\ out_files = [f \in Files |->
                        IF f = "science" THEN << ts \o <<",">> \o JoinComma(fields) >>
                        ELSE <<>>]
            ELSE NoOutput

\* the loop has taken t|SDQ 4:a b c d e f and is polling again
C10_Witness ==
    /\ FirstLine = Tagged(<<"t">>, <<"4">>, SixFields)
    /\ FirstLineTaken
    /\ pc = "isfile"

\* the whitespace-separated tokens of the first line
FirstTokens == Split(FirstLine, " ")

\* the four target IDs are pairwise different
UniqueIds == Cardinality({ids[k] : k \in 1..4}) = 4

\* C11: for every fix line and every assignment of the four target IDs,
\* equal IDs included, the line is appended to at most one of the four
\* target files, and at most one record is appended to it.
C11_AtMostOneTarget ==
    /\ Cardinality(out_exists) <= 1
    /\ Cardinality({f \in Files : out_files[f] # <<>>}) <= 1
    /\ \A f \in Files : Len(out_files[f]) <= 1

\* a fix of the ID that both sentry and jason carry has been taken and
\* written
C11_Witness ==
    /\ ids[1] = ids[2]
    /\ FirstLine = Fix(VFR, ids[1], SOLN_USBL)
    /\ FirstLineTaken
    /\ Len(out_files["sentry"]) = 1

\* the solution types target k accepts: ship (3) the type SOLN_GPS0, the
\* others the types that contain USBL
AcceptedFor(k, solution) ==
    IF k = 3 THEN Contains(solution, <<"S", "O", "L", "N", "_", "G", "P", "S", "0">>)
    ELSE Contains(solution, <<"U", "S", "B", "L">>)

C13_OnlyRecognizedTag ==
    (Len(FirstLine) > 0 /\ ~Contains(FirstTokens[1], VFR)) => NoOutput

\* a full VPR record of the sentry ID has been taken
C13_Witness ==
    /\ FirstLine = Fix(VPR, ids[1], SOLN_USBL)
    /\ FirstLineTaken
    /\ pc = "isfile"

\* a line that is to leave no record: blank, unclassifiable (no marker, no
\* queue number, a queue that is not configured; for the usbl driver no
\* VFR tag or fewer tokens than a fix record) or a science payload of fewer
\* than six fields
LeavesNoRecord(line) ==
    \/ Len(line) = 0
    \/ /\ driver = "sentry"
       /\ \/ parse_sentry_payload(line, STATUS_QUEUE, SCIENCE_QUEUE,
                                   METHANE_QUEUE).msg_type = "None"
          \/ IsShortScience(line)
    \/ /\ driver = "usbl"
       /\ \/ Len(Split(line, " ")) < 9
          \/ ~Contains(Split(line, " ")[1], VFR)

\* C14: an output file comes into being only with its first record: every
\* file that exists holds a record, and while the raw file holds only blank
\* lines, unclassifiable lines and malformed payloads no output file
\* exists, however the lines are read.
C14_FileOnlyWithRecord ==
    /\ out_exists = {f \in Files : out_files[f] # <<>>}
    /\ (\A i \in 0..(Len(RawLines) - 1) : LeavesNoRecord(FullLine(i))) =>
           (out_exists = {} /\ \A f \in Files : disk[f] = <<>>)

\* two science lines of too few fields have been taken and there is no
\* science file
C14_Witness ==
    /\ CaughtUp
    /\ Len(WholeLines) = 2
    /\ \A i \in 1..2 : IsShortScience(WholeLines[i])
    /\ out_exists = {}

IsPrefix(a, b) == Len(a) <= Len(b) /\ SubSeq(b, 1, Len(a)) = a

\* every queue file that exists is a run of whole records, a newline after
\* each, and a file that does not exist has no bytes
WholeRecordsOnly ==
    \A f \in Files :
        /\ disk[f] = FileText(out_files[f])
        /\ \A k \in 1..Len(out_files[f]) : ~Contains(out_files[f][k], <<"\n">>)
        /\ f \notin out_exists => disk[f] = <<>>

\* C15: in every reachable state, the states a kill of the process leaves
\* between any two steps of the loop included, every output file holds
\* whole, newline-ended records only, and no step, a restart included,
\* takes away a record that was written.
C15_NoPartialRecord ==
    /\ []WholeRecordsOnly
    /\ [][\A f \in Files : IsPrefix(disk[f], disk'[f])]_vars

\* the process was killed between the open that created a queue file and
\* the flush of its first record, with a record in another queue file
C15_Witness ==
    /\ pc = "crashed"
    /\ \E f \in out_exists : out_files[f] = <<>>
    /\ \E f \in out_exists : Len(out_files[f]) = 1

\* C19: a restart against the same raw file and output files reprocesses
\* nothing: with every read on a line boundary, no raw line gets a second
\* record.
C19_RestartReprocessesNothing ==
    h_clean =>
        \A f \in Files : \A i \in 1..Len(h_origin[f]) : \A j \in 1..Len(h_origin[f]) :
            h_origin[f][i] = h_origin[f][j] => i = j

\* raw line i is newline-ended and classifies and formats
WholeAndFormats(i) ==
    /\ i + 1 < Len(RawLines)
    /\ LineFile(RawLines[i + 1]) # "None"

\* the record of raw line i is in the file of its type or target
Written(i) ==
    /\ i + 1 < Len(RawLines)
    /\ LET f == LineFile(RawLines[i + 1])
       IN  /\ f # "None"
           /\ \E k \in 1..Len(out_files[f]) :
                  /\ h_origin[f][k] = i
                  /\ out_files[f][k] = LineRecord(RawLines[i + 1])

\* C16: under fair scheduling of the driver loop and an append-only
\* producer, every newline-ended raw line that classifies and formats
\* eventually has its record in the output file of its type or target.
\* However the loop is scheduled it takes no step once the process has
\* ended, so no such line is still without its record then.
C16_EveryLineEventuallyWritten ==
    pc = "dead" => \A i \in 0..(MaxLines - 1) : WholeAndFormats(i) => Written(i)

\* C17: the raw file being absent, or disappearing at any point of an
\* iteration, the moment between the existence check and the open
\* included, is not fatal: the open of the raw file never ends the process.
C17_VanishNonFatal == ~(pc = "dead" /\ h_ret.called = "open")

\* C18: the cursor is 0 at process start, and once the first poll that
\* found the raw file with its N complete lines is over, all N lines, the
\* ones that were there before the process started, have been taken by the
\* loop body.
C18_FirstPollTakesAll ==
    restarts = 0 =>
        /\ (pc \in {"isfile", "read"} /\ h_handled = {}) => last_line = 0
        /\ (pc \in {"isfile", "read", "dead"} /\ last_line > 0) =>
               \A i \in 0..(Len(RawLines) - 2) : <<i, RawLines[i + 1]>> \in h_handled

\* C20: with a producer that only appends, last_line never decreases, and
\* it changes only in a poll that found the line count different from it.
C20_CursorMonotone ==
    [][/\ last_line' >= last_line
       /\ last_line' # last_line =>
             (pc = "read" /\ raw_exists /\ last_line # Len(RawLines) - 1)]_vars

\* the cursor has moved from 0 to 1 in one poll and the next poll is about
\* to find two lines in the raw file
C20_Witness ==
    /\ pc = "read"
    /\ last_line = 1
    /\ Len(RawLines) - 1 = 2

\* what the classifier and the formatter of its type make of a line
Classified(line) == parse_sentry_payload(line, STATUS_QUEUE, SCIENCE_QUEUE, METHANE_QUEUE)

Formatted(line) == queue_filters(Classified(line).msg_type, Classified(line).payload)

\* C21: for a queue-tagged line of a configured queue that holds no '|'
\* the timestamp of the record is the empty string: the record written is
\* ',' followed by the formatted payload.
C21_NoSeparatorEmptyTimestamp ==
    (FirstLineTaken /\ ~Contains(FirstLine, <<"|">>)) =>
        \A f \in Files :
            out_files[f] # <<>> => out_files[f][1] = <<",">> \o Formatted(FirstLine).val

\* the number of comma-separated fields of a record
FieldCount(record) == Len(Split(record, ","))

\* C22: every record of a type's output file has the same number of
\* comma-separated fields, for science the timestamp and six values, also
\* for raw lines whose timestamp prefix or payload tokens hold commas.
C22_FixedFieldCount ==
    /\ \A i \in 1..Len(out_files["science"]) : FieldCount(out_files["science"][i]) = 7
    /\ \A f \in Files : \A i, j \in 1..Len(out_files[f]) :
           FieldCount(out_files[f][i]) = FieldCount(out_files[f][j])

\* C23: parse_sentry_payload returns without raising for every line; for
\* a line without the SDQ marker it returns message type None, the line
\* unchanged as payload and timestamp None.
C23_ClassifierFailsSoft ==
    /\ pc # "dead"
    /\ h_ret.called \in {"parse_sentry_payload", "queue_filters"} => ~h_ret.raised
    /\ (FirstLineTaken /\ pc = "lines" /\ ~Contains(FirstLine, SDQ)) =>
           /\ h_ret.called = "parse_sentry_payload"
           /\ h_ret.msg_type = "None"
           /\ h_ret.payload = FirstLine
           /\ h_ret.timestamp = PyNone

\* the classifier has returned for a line that holds a '|' and no marker
C23_Witness ==
    /\ FirstLineTaken
    /\ pc = "lines"
    /\ h_ret.called = "parse_sentry_payload"
    /\ ~Contains(FirstLine, SDQ)
    /\ Contains(FirstLine, <<"|">>)

\* the line holds the marker, and no ':' follows the marker or the queue
\* text between the four characters of the tag and that ':' is no integer
QueueUnreadable(line) ==
    /\ Contains(line, SDQ)
    /\ LET from == SliceFrom(line, Index(line, SDQ))
       IN  \/ ~Contains(from, <<":">>)
           \/ PyInt(Slice(from, 4, Index(from, <<":">>))).isNone

\* C24: when the marker is present and the queue text does not parse as an
\* integer, or no ':' follows the marker, parse_sentry_payload returns
\* message type None, the original line as payload, and as timestamp the
\* text before the first '|'.
C24_UnreadableQueueKeepsLine ==
    (FirstLineTaken /\ pc = "lines" /\ QueueUnreadable(FirstLine)) =>
        /\ h_ret.called = "parse_sentry_payload"
        /\ ~h_ret.raised
        /\ h_ret.msg_type = "None"
        /\ h_ret.payload = FirstLine
        /\ Contains(FirstLine, <<"|">>) =>
               h_ret.timestamp = Some(Slice(FirstLine, 0, Index(FirstLine, <<"|">>)))

\* the classifier has returned for a line with a timestamp, a '|', the
\* marker and a ':' after a queue text that is no integer
C24_Witness ==
    /\ FirstLineTaken
    /\ pc = "lines"
    /\ h_ret.called = "parse_sentry_payload"
    /\ QueueUnreadable(FirstLine)
    /\ Contains(SliceFrom(FirstLine, Index(FirstLine, SDQ)), <<":">>)
    /\ Contains(FirstLine, <<"|">>)
    /\ h_ret.timestamp # Some(<<>>)

\* the fields joined by '-'
RECURSIVE JoinDash(_)
JoinDash(fields) ==
    IF Len(fields) = 1 THEN fields[1]
    ELSE fields[1] \o <<"-">> \o JoinDash(Tail(fields))

\* <date token with every / replaced by -> <time token>,<7th>,<8th>,<9th>
\* of a line of nine or more tokens
FixRecord(line) ==
    LET tok == Split(line, " ")
    IN  JoinDash(Split(tok[2], "/")) \o <<" ">> \o tok[3] \o <<",">> \o tok[7]
            \o <<",">> \o tok[8] \o <<",">> \o tok[9]

ExampleRecord ==
    <<"2", "0", "1", "9", "-", "0", "9", "-", "2", "4", " ", "1", "3", ":",
      "2", "7", ":", "5", "8", ".", "0", "3", "3", ",", "-", "1", "2", "5",
      ".", "0", "7", "9", "5", "6", "5", ",", "4", "4", ".", "4", "8", "9",
      "6", "7", "5", ",", "-", "5", "9", "7", ".", "9", "0", "0">>

\* C25: the record parse_usbl_payload appends is the same for whichever
\* target matches: the date token with every '/' replaced by '-', a blank,
\* the time token, and the 7th, 8th and 9th tokens after commas, followed
\* by a newline; the fix of the docstring with sentry ID '0' appends
\* '2019-09-24 13:27:58.033,-125.079565,44.489675,-597.900' to the sentry
\* file.
C25_UniformFixRecord ==
    /\ \A f \in Files :
          /\ \A i \in 1..Len(out_files[f]) : out_files[f][i] = FixRecord(FirstLine)
          /\ disk[f] = FileText(out_files[f])
    /\ (FirstLine = ExampleFix /\ FirstLineTaken /\ ids[1] = <<"0">>) =>
          /\ out_files["sentry"] = <<ExampleRecord>>
          /\ disk["sentry"] = ExampleRecord \o <<"\n">>

\* the fix of the docstring has been taken with sentry ID '0' and has left
\* its record
C25_Witness ==
    /\ FirstLine = ExampleFix
    /\ FirstLineTaken
    /\ ids[1] = <<"0">>
    /\ Len(out_files["sentry"]) = 1

\* C26: output files are append-only across the whole run: the records of
\* an output file at any moment are a prefix of its records at every later
\* moment, and a file that exists goes on existing, so that it is opened
\* with "w+" only while it does not exist.
C26_OutputAppendOnly ==
    [][\A f \in Files :
          /\ IsPrefix(out_files[f], out_files'[f])
          /\ f \in out_exists => f \in out_exists']_vars

\* a second record has been appended to an output file that held one
C26_Witness ==
    \E f \in out_exists :
        /\ Len(out_files[f]) = 2
        /\ disk[f] = FileText(out_files[f])

\* C27: an iteration of the driver loop (a step that is not the
\* producer's) that finds the raw file absent, or finds its line count
\* equal to the cursor, ends there and changes neither
\* the cursor nor any output file, also when bytes have been appended to
\* the unterminated last line since the last poll.
C27_IdlePollChangesNothing ==
    [][(/\ UNCHANGED <<raw_exists, raw_text, todo, nlines>>
        /\ \/ pc = "isfile" /\ ~raw_exists
           \/ pc = "read" /\ raw_exists /\ Len(RawLines) - 1 = last_line)
       => /\ pc' = "isfile"
          /\ last_line' = last_line
          /\ parse_lines' = parse_lines
          /\ out_files' = out_files
          /\ disk' = disk
          /\ out_exists' = out_exists]_vars

\* the cursor was set to 1 by a poll that found one whole line and nothing
\* after it; the raw file has since gained bytes of a second line but no
\* newline, and the loop is at the read that finds the line count equal
C27_Witness ==
    /\ pc = "read"
    /\ raw_exists
    /\ h_clean
    /\ last_line = 1
    /\ Len(RawLines) - 1 = last_line
    /\ RawLines[2] # <<>>

\* the output files a step changes
ChangedFiles == {f \in Files : out_files'[f] # out_files[f] \/ disk'[f] # disk[f]}

\* C28: processing one raw line (a step of the for loop) changes at most
\* one output file and changes it only by appending exactly one record; a
\* line that is blank, unclassified or malformed leaves every output file
\* unchanged; the cursor is left unchanged in either case.
C28_OneLineOneRecord ==
    [][(pc = "lines" /\ UNCHANGED <<raw_exists, raw_text, todo, nlines>>) =>
          /\ last_line' = last_line
          /\ Cardinality(ChangedFiles) <= 1
          /\ \A f \in ChangedFiles :
                /\ Len(out_files'[f]) = Len(out_files[f]) + 1
                /\ IsPrefix(out_files[f], out_files'[f])
                /\ disk'[f] = disk[f] \o out_files'[f][Len(out_files'[f])] \o <<"\n">>
          /\ LeavesNoRecord(Head(parse_lines).text) =>
                (ChangedFiles = {} /\ out_exists' = out_exists)]_vars

\* two lines have been processed and have left one record each, in two
\* output files
C28_Witness ==
    /\ pc = "isfile"
    /\ h_clean
    /\ \E f \in Files : \E g \in Files \ {f} :
          /\ h_origin[f] = <<0>>
          /\ h_origin[g] = <<1>>
          /\ Len(out_files[f]) = 1
          /\ Len(out_files[g]) = 1

\* the lines of the raw file from index i on, numbered as the loop sees
\* them
LinesFrom(i) == SubSeq(Numbered(RawLines), i + 1, Len(RawLines))

\* C29: a poll that finds the line count of the raw file below the cursor
\* (the file has shrunk) processes no line and sets the cursor down to the
\* line count; a poll that finds more lines than the cursor processes the
\* lines from the cursor on, also at indices that were processed before the
\* file shrank; a poll that finds the line count equal to the cursor
\* processes nothing, whatever the lines now are, and no poll ever hands
\* over a line below the cursor.
C29_ShrunkFileResetsCursor ==
    [][(pc = "read" /\ raw_exists /\ UNCHANGED <<raw_exists, raw_text, todo, nlines>>) =>
          LET count == Len(RawLines) - 1
          IN  /\ count < last_line =>
                    (last_line' = count /\ parse_lines' = <<>> /\ pc' = "isfile")
              /\ count = last_line =>
                    (last_line' = last_line /\ parse_lines' = <<>> /\ pc' = "isfile")
              /\ count > last_line =>
                    (last_line' = count /\ parse_lines' = LinesFrom(last_line))
              /\ \A k \in 1..Len(parse_lines') : parse_lines'[k].idx >= last_line
              /\ UNCHANGED <<out_files, disk, out_exists, h_handled>>]_vars

\* line 1 has been processed with two different texts: the file of two
\* lines shrank below the cursor, a poll set the cursor down, and the line
\* written afterwards at index 1 was processed
C29_Witness ==
    \E a \in pool : \E b \in pool \ {a} :
        /\ <<1, a>> \in h_handled
        /\ <<1, b>> \in h_handled

====
